---- MODULE Spec2Model ----
(***************************************************************************)
(* Model of the Team / User / Item CRUD service of main.py.                *)
(*                                                                         *)
(* The state is the three tables of database.db plus the log of the HTTP   *)
(* exchanges served so far (request and response of every call).  Every    *)
(* path operation is one action: the framework's request validation, the   *)
(* handler body with its session calls, the commit, and the framework's    *)
(* validation of the returned object against the declared response_model.  *)
(*                                                                         *)
(* Optional values (Python None / SQL NULL / JSON null) are modelled as    *)
(* sequences of length 0 or 1: None is << >>, a value v is << v >>.        *)
(* A request body is a record whose DOMAIN is the set of fields the client *)
(* explicitly set (model_dump(exclude_unset=True)).                        *)
(***************************************************************************)
EXTENDS Integers, Sequences, FiniteSets, TLC

VARIABLES teams, users, items, log

vars == <<teams, users, items, log>>

\* ------------------------------------------------------------------ bounds
MaxSteps == 2          \* requests served in one run
MaxId == 2             \* path ids a client asks for are 1..MaxId

\* ------------------------------------------------------- program constants
LimitCap == 100        \* Query(default=100, le=100)
DefaultLimit == 100
DefaultOffset == 0
MaxDigits == 5         \* Field(max_digits=5, ...)
DecimalPlaces == 3     \* Field(..., decimal_places=3)

None == << >>
Some(v) == << v >>

\* ------------------------------------------------------------ store helpers
Ids(table) == {table[i].id : i \in 1..Len(table)}

Max(S) == CHOOSE m \in S : \A n \in S : n <= m

Min2(a, b) == IF a <= b THEN a ELSE b

\* session.get(Model, id): the row as an optional value
Get(table, id) ==
  IF id \in Ids(table)
    THEN Some(table[CHOOSE i \in 1..Len(table) : table[i].id = id])
    ELSE None

\* A faulty id generator: the number of rows plus one
NextIdLenPlusOne(table) == Len(table) + 1

\* id given by the store to a row inserted with id = None: the table's
\* INTEGER PRIMARY KEY is filled with the largest id in use plus one
NextId(table) == IF table = << >> THEN 1 ELSE Max(Ids(table)) + 1

\* session.add(row); session.commit() of a new row
Insert(table, row) == Append(table, row)

\* A faulty update: an UPDATE without its WHERE clause
ReplaceEvery(table, row) == [i \in 1..Len(table) |-> row]

\* session.add(row); session.commit() of a row loaded from the table: an
\* UPDATE of the row with that primary key
Replace(table, row) ==
  [i \in 1..Len(table) |-> IF table[i].id = row.id THEN row ELSE table[i]]

\* A faulty delete: session.delete(row) that is never committed
WithoutCommit(table, id) == table

RECURSIVE Without(_, _)
\* session.delete(row); session.commit()
Without(table, id) ==
  IF table = << >> THEN << >>
  ELSE IF Head(table).id = id THEN Without(Tail(table), id)
  ELSE <<Head(table)>> \o Without(Tail(table), id)

\* select(Model).offset(offset).limit(limit) in the store's rowid order; the
\* store reads a negative OFFSET as 0 and a negative LIMIT as "no limit"
Select(table, offset, limit) ==
  LET off == IF offset < 0 THEN 0 ELSE offset
      last == IF limit < 0 THEN Len(table) ELSE Min2(Len(table), off + limit)
  IN  SubSeq(table, off + 1, last)

\* setattr(row, key, value) for every key of the body (body values are
\* optional values; a key that is not a column of the row is skipped)
Apply(row, data) ==
  [f \in DOMAIN row |-> IF f \in DOMAIN data THEN data[f] ELSE row[f]]

\* ------------------------------------------------------------ HTTP helpers
Request(op, res, id, body, offset, limit) ==
  [op |-> op, res |-> res, id |-> id, body |-> body,
   offset |-> offset, limit |-> limit]

NoBody == [f \in {} |-> None]

Response(status, body) == [status |-> status, body |-> body]

\* raise HTTPException(status_code=404, detail=...)
NotFound(detail) == Response(404, [detail |-> detail])

\* the framework's answer to a request that fails validation
Unprocessable == Response(422, [detail |-> "validation error"])

\* the framework's answer to an exception that is not an HTTPException
ServerError == Response(500, [detail |-> "Internal Server Error"])

Served(req, resp) == log' = Append(log, [req |-> req, resp |-> resp])

CanServe == Len(log) < MaxSteps

\* --------------------------------------------------------------- passwords
Passwords == {"p1", "p2"}
Salts == {"s1", "s2"}          \* the salt pbkdf2_sha256.hash draws at random

\* pbkdf2_sha256.hash(password) with the salt it drew: the modular-crypt
\* string "$pbkdf2-sha256$<salt>$<digest of salt and password>"
Pbkdf2Sha256(password, salt) ==
  "$pbkdf2-sha256$" \o salt \o "$" \o "digest(" \o salt \o "," \o password \o ")"

\* pbkdf2_sha256.verify(password, hash)
Verifies(password, hash) == \E s \in Salts : hash = Pbkdf2Sha256(password, s)

\* A faulty hash_password: the password itself
HashPlain(password, salt) == password

\* def hash_password(password): return pbkdf2_sha256.hash(password)
hash_password(password, salt) == Pbkdf2Sha256(password, salt)

\* ------------------------------------------------------------------ prices
\* A price is a non-negative decimal with at most four places, held as its
\* count of ten-thousandths (15000 is 1.5, 12346 is 1.2346).
ReturnUnit == 10       \* ten-thousandths in one unit of the third place

RECURSIVE NumDigits(_)
NumDigits(n) == IF n < 10 THEN 1 ELSE 1 + NumDigits(n \div 10)

RECURSIVE TrailingZeros(_, _)
\* trailing zeros of n, at most k of them
TrailingZeros(n, k) ==
  IF k = 0 \/ n % 10 # 0 THEN 0 ELSE 1 + TrailingZeros(n \div 10, k - 1)

Pow10(k) == CASE k = 0 -> 1 [] k = 1 -> 10 [] k = 2 -> 100
              [] k = 3 -> 1000 [] OTHER -> 10000

\* number of decimal places of the price as the client wrote it
Decimals(p) == 4 - TrailingZeros(p, 4)

\* the digits of the decimal's coefficient, counted as the validator counts
\* them: a coefficient shorter than the number of places counts as the places
Digits(p) ==
  LET coeff == p \div Pow10(TrailingZeros(p, 4))
  IN  IF NumDigits(coeff) < Decimals(p) THEN Decimals(p) ELSE NumDigits(coeff)

\* Field(max_digits=5, decimal_places=3) on a Decimal: at most 5 digits, at
\* most 3 places, and at most 5 - 3 digits before the point
PriceField(p) ==
  /\ Digits(p) <= MaxDigits
  /\ Decimals(p) <= DecimalPlaces
  /\ Digits(p) - Decimals(p) <= MaxDigits - DecimalPlaces

\* The Numeric(5, 3) column read back by the session: the store holds the
\* number as written (as a float; the prices used here are short decimals,
\* which a float gives back exactly and whose fourth place is never a 5),
\* the session formats it to three places ("%.3f")
Loaded(p) == ((p + ReturnUnit \div 2) \div ReturnUnit) * ReturnUnit

\* ------------------------------------------------------------------ models
\* class TeamPublic(TeamBase): the fields of a Team the response shows
TeamPublic(row) ==
  [id |-> row.id, name |-> row.name, headquarters |-> row.headquarters]

\* class UserPublic(UserBase): no password and no hashed_password
UserPublic(row) ==
  [id |-> row.id, name |-> row.name, email |-> row.email, age |-> row.age,
   team_id |-> row.team_id]

\* class ItemPublic(ItemBase), built from the row as the session loaded it
ItemPublic(row) ==
  [id |-> row.id, name |-> row.name, price |-> Loaded(row.price),
   is_offer |-> row.is_offer, units |-> row.units,
   units_measurement |-> row.units_measurement]

\* the public form of a row of the resource
PublicOf(res, row) ==
  CASE res = "teams" -> TeamPublic(row) [] res = "users" -> UserPublic(row)
    [] OTHER -> ItemPublic(row)

\* Columns declared without "| None": NOT NULL in the table
TeamRequired == {"name", "headquarters"}
UserRequired == {"name", "hashed_password"}
ItemRequired == {"name", "price", "is_offer", "units", "units_measurement"}

\* Columns whose Python type is optional hold optional values in the row
UserOptional == {"email", "age", "team_id"}

\* session.commit() of an updated row fails (IntegrityError) when the body
\* put None into a NOT NULL column
NullInRequired(data, required) ==
  \E f \in DOMAIN data \cap required : data[f] = None

\* The values setattr writes: a required column takes the value itself, an
\* optional column the optional value
Written(data, optional) ==
  [f \in DOMAIN data |-> IF f \in optional THEN data[f] ELSE data[f][1]]

\* The framework validates what the handler returned against the declared
\* response_model; a mismatch is a ResponseValidationError, answered 500.
\* `declared` and `returned` are "one" or "list".
Serialize(declared, returned, valid, body) ==
  IF declared = returned /\ valid THEN Response(200, body) ELSE ServerError

\* ------------------------------------------------------------------ inputs
PathIds == 1..MaxId

\* ?offset=&limit= of the list endpoints; None is "not given"
Queries ==
  {[offset |-> None, limit |-> None],
   [offset |-> Some(1), limit |-> Some(1)],
   [offset |-> None, limit |-> Some(-1)],
   [offset |-> None, limit |-> Some(LimitCap + 1)]}

Offset(q) == IF q.offset = None THEN DefaultOffset ELSE q.offset[1]
Limit(q) == IF q.limit = None THEN DefaultLimit ELSE q.limit[1]

\* Query(default=100, le=100): a larger limit is refused by the framework;
\* offset is a plain int and limit has no lower bound
QueryOk(q) == Limit(q) <= LimitCap

\* the body of a list response
Listed(res, rows) == [rows |-> [i \in 1..Len(rows) |-> PublicOf(res, rows[i])]]

Ok == [ok |-> TRUE]

\* ------------------------------------------------------------------- teams
TeamCreateBodies ==
  {[name |-> "a", headquarters |-> "x"], [name |-> "b", headquarters |-> "y"]}

TeamUpdateBodies ==
  {NoBody,
   [name |-> Some("c")],
   [headquarters |-> Some("z")],
   [name |-> None]}

\* @app.post("/teams/", response_model=TeamPublic)
create_team ==
  \E team \in TeamCreateBodies :
    LET db_team == [id |-> NextId(teams), name |-> team.name,
                    headquarters |-> team.headquarters]
    IN  /\ CanServe
        /\ teams' = Insert(teams, db_team)
        /\ UNCHANGED <<users, items>>
        /\ Served(Request("POST", "teams", 0, team, None, None),
                  Serialize("one", "one", TRUE, TeamPublic(db_team)))

\* @app.get("/teams/", response_model=List[TeamPublic])
read_teams ==
  \E q \in Queries :
    /\ CanServe
    /\ UNCHANGED <<teams, users, items>>
    /\ Served(Request("LIST", "teams", 0, NoBody, q.offset, q.limit),
              IF ~QueryOk(q) THEN Unprocessable
              ELSE Serialize("list", "list", TRUE,
                             Listed("teams", Select(teams, Offset(q), Limit(q)))))

\* @app.get("/teams/{team_id}", response_model=TeamPublic)
read_team ==
  \E team_id \in PathIds :
    LET team == Get(teams, team_id)
    IN  /\ CanServe
        /\ UNCHANGED <<teams, users, items>>
        /\ Served(Request("GET", "teams", team_id, NoBody, None, None),
                  IF team = None THEN NotFound("Team not found")
                  ELSE Serialize("one", "one", TRUE, TeamPublic(team[1])))

\* @app.patch("/teams/{team_id}", response_model=TeamPublic)
update_team ==
  \E team_id \in PathIds, team \in TeamUpdateBodies :
    LET db_team == Get(teams, team_id)
        req == Request("PATCH", "teams", team_id, team, None, None)
    IN  /\ CanServe
        /\ UNCHANGED <<users, items>>
        /\ IF db_team = None
             THEN teams' = teams /\ Served(req, NotFound("Team not found"))
           ELSE IF NullInRequired(team, TeamRequired)
             THEN teams' = teams /\ Served(req, ServerError)
           ELSE LET new == Apply(db_team[1], Written(team, {}))
                IN  /\ teams' = Replace(teams, new)
                    /\ Served(req, Serialize("one", "one", TRUE, TeamPublic(new)))

\* The flush of session.delete(team) first empties Team.users: every user
\* of the team gets team_id = NULL (the relationship has no delete cascade)
Unlinked(table, team_id) ==
  [i \in 1..Len(table) |->
     IF table[i].team_id = Some(team_id)
       THEN [table[i] EXCEPT !.team_id = None] ELSE table[i]]

\* @app.delete("/teams/{team_id}")
delete_team ==
  \E team_id \in PathIds :
    LET team == Get(teams, team_id)
        req == Request("DELETE", "teams", team_id, NoBody, None, None)
    IN  /\ CanServe
        /\ UNCHANGED items
        /\ IF team = None
             THEN /\ UNCHANGED <<teams, users>>
                  /\ Served(req, NotFound("Team not found"))
             ELSE /\ teams' = Without(teams, team_id)
                  /\ users' = Unlinked(users, team_id)
                  /\ Served(req, Response(200, Ok))

\* ------------------------------------------------------------------- users
\* a field of a Create body the client left out takes its default, None
OptField(body, f) == IF f \in DOMAIN body THEN body[f] ELSE None

\* {**obj, **update}
Merge(a, b) ==
  [f \in DOMAIN a \cup DOMAIN b |-> IF f \in DOMAIN b THEN b[f] ELSE a[f]]

UserCreateBodies ==
  {[name |-> "a", email |-> Some("e1"), age |-> Some(30),
    team_id |-> Some(2), password |-> "p1"],
   [name |-> "b", password |-> "p2"]}

UserUpdateBodies ==
  {NoBody,
   [name |-> Some("c")],
   [password |-> Some("p2")],
   [team_id |-> Some(1)],
   [email |-> None, age |-> Some(31)],
   [password |-> None, name |-> Some("c")],
   [name |-> None]}

\* @app.post("/users/", response_model=UserPublic)
\* The store does not check team_id against the team table: the engine is
\* created without turning the store's foreign-key enforcement on.
create_user ==
  \E user \in UserCreateBodies, salt \in Salts :
    LET hashed_password == hash_password(user.password, salt)
        db_user == [id |-> NextId(users), name |-> user.name,
                    email |-> OptField(user, "email"),
                    age |-> OptField(user, "age"),
                    team_id |-> OptField(user, "team_id"),
                    hashed_password |-> hashed_password]
    IN  /\ CanServe
        /\ users' = Insert(users, db_user)
        /\ UNCHANGED <<teams, items>>
        /\ Served(Request("POST", "users", 0, user, None, None),
                  Serialize("one", "one", TRUE, UserPublic(db_user)))

\* @app.get("/users/", response_model=UserPublic): the handler returns the
\* list of rows, the declared response_model is a single UserPublic
read_users ==
  \E q \in Queries :
    /\ CanServe
    /\ UNCHANGED <<teams, users, items>>
    /\ Served(Request("LIST", "users", 0, NoBody, q.offset, q.limit),
              IF ~QueryOk(q) THEN Unprocessable
              ELSE Serialize("one", "list", TRUE,
                             Listed("users", Select(users, Offset(q), Limit(q)))))

\* @app.get("/users/{user_id}", response_model=List[UserPublic]): the handler
\* returns one row, the declared response_model is a list
read_user ==
  \E user_id \in PathIds :
    LET user == Get(users, user_id)
    IN  /\ CanServe
        /\ UNCHANGED <<teams, users, items>>
        /\ Served(Request("GET", "users", user_id, NoBody, None, None),
                  IF user = None THEN NotFound("No User found")
                  ELSE Serialize("list", "one", TRUE, UserPublic(user[1])))

\* @app.patch("/users/{user_id}", response_model=UserPublic)
\* A missing row reaches HTTPException(satus_response=404, ...), a TypeError.
\* hash_password(None) is a TypeError too.  sqlmodel_update skips the key
\* "password", which is no field of User.
update_user ==
  \E user_id \in PathIds, user \in UserUpdateBodies, salt \in Salts :
    LET db_user == Get(users, user_id)
        req == Request("PATCH", "users", user_id, user, None, None)
        hasPassword == "password" \in DOMAIN user
        extra_data == IF hasPassword /\ user["password"] # None
                        THEN [hashed_password |->
                                Some(hash_password(user["password"][1], salt))]
                        ELSE NoBody
    IN  /\ CanServe
        /\ UNCHANGED <<teams, items>>
        /\ IF db_user = None
             THEN users' = users /\ Served(req, ServerError)
           ELSE IF hasPassword /\ user["password"] = None
             THEN users' = users /\ Served(req, ServerError)
           ELSE IF NullInRequired(user, UserRequired)
             THEN users' = users /\ Served(req, ServerError)
           ELSE LET new == Apply(db_user[1],
                                 Written(Merge(user, extra_data), UserOptional))
                IN  /\ users' = Replace(users, new)
                    /\ Served(req, Serialize("one", "one", TRUE, UserPublic(new)))

\* @app.delete("/users/{user_id}"): the guard tests the class User, which is
\* never false; session.delete(None) raises UnmappedInstanceError
delete_user ==
  \E user_id \in PathIds :
    LET user == Get(users, user_id)
        req == Request("DELETE", "users", user_id, NoBody, None, None)
    IN  /\ CanServe
        /\ UNCHANGED <<teams, items>>
        /\ IF user = None
             THEN users' = users /\ Served(req, ServerError)
             ELSE users' = Without(users, user_id) /\ Served(req, Response(200, Ok))

\* ------------------------------------------------------------------- items
\* prices in ten-thousandths: 12.345, 1.2346, 123456.7, 123.45
ItemCreateBodies ==
  {[name |-> "a", units |-> 1, units_measurement |-> "kg"],
   [name |-> "b", price |-> 123450, is_offer |-> TRUE, units |-> 2,
    units_measurement |-> "l"],
   [name |-> "b", price |-> 12346, units |-> 2, units_measurement |-> "l"],
   [name |-> "b", price |-> 1234567000, units |-> 2, units_measurement |-> "l"],
   [name |-> "b", price |-> 1234500, units |-> 2, units_measurement |-> "l"]}

ItemUpdateBodies ==
  {NoBody,
   [name |-> Some("c")],
   [price |-> Some(25000), units |-> Some(7)],
   [price |-> Some(12346)],
   [price |-> Some(1234567000)],
   [is_offer |-> None]}

\* price: Decimal = Field(default=0, ...), is_offer: bool = False
PriceOf(body) == IF "price" \in DOMAIN body THEN body["price"] ELSE 0
IsOfferOf(body) == IF "is_offer" \in DOMAIN body THEN body["is_offer"] ELSE FALSE

\* ItemPublic validates the loaded price against the ItemBase field
ItemPublicOk(row) == PriceField(Loaded(row.price))

\* @app.post("/items/", response_model=ItemPublic)
create_item ==
  \E item \in ItemCreateBodies :
    LET db_item == [id |-> NextId(items), name |-> item.name,
                    price |-> PriceOf(item), is_offer |-> IsOfferOf(item),
                    units |-> item.units,
                    units_measurement |-> item.units_measurement]
        req == Request("POST", "items", 0, item, None, None)
    IN  /\ CanServe
        /\ UNCHANGED <<teams, users>>
        /\ IF ~PriceField(PriceOf(item))
             THEN items' = items /\ Served(req, Unprocessable)
             ELSE /\ items' = Insert(items, db_item)
                  /\ Served(req, Serialize("one", "one", ItemPublicOk(db_item),
                                           ItemPublic(db_item)))

\* @app.get("/items/", response_model=List[ItemPublic])
read_items ==
  \E q \in Queries :
    LET rows == Select(items, Offset(q), Limit(q))
    IN  /\ CanServe
        /\ UNCHANGED <<teams, users, items>>
        /\ Served(Request("LIST", "items", 0, NoBody, q.offset, q.limit),
                  IF ~QueryOk(q) THEN Unprocessable
                  ELSE Serialize("list", "list",
                                 \A i \in 1..Len(rows) : ItemPublicOk(rows[i]),
                                 Listed("items", rows)))

\* @app.get("/items/{item_id}", response_model=ItemPublic)
read_item ==
  \E item_id \in PathIds :
    LET item == Get(items, item_id)
    IN  /\ CanServe
        /\ UNCHANGED <<teams, users, items>>
        /\ Served(Request("GET", "items", item_id, NoBody, None, None),
                  IF item = None THEN NotFound("No Item found")
                  ELSE Serialize("one", "one", ItemPublicOk(item[1]),
                                 ItemPublic(item[1])))

\* class ItemUpdate: price: Decimal | None = None, a plain Decimal
ItemUpdatePriceOk(p) == TRUE

\* @app.patch("/items/{item_id}", response_model=ItemPublic)
update_item ==
  \E item_id \in PathIds, item \in ItemUpdateBodies :
    LET db_item == Get(items, item_id)
        req == Request("PATCH", "items", item_id, item, None, None)
    IN  /\ CanServe
        /\ UNCHANGED <<teams, users>>
        /\ IF "price" \in DOMAIN item /\ item["price"] # None
                /\ ~ItemUpdatePriceOk(item["price"][1])
             THEN items' = items /\ Served(req, Unprocessable)
           ELSE IF db_item = None
             THEN items' = items /\ Served(req, NotFound("Item not found"))
           ELSE IF NullInRequired(item, ItemRequired)
             THEN items' = items /\ Served(req, ServerError)
           ELSE LET new == Apply(db_item[1], Written(item, {}))
                IN  /\ items' = Replace(items, new)
                    /\ Served(req, Serialize("one", "one", ItemPublicOk(new),
                                             ItemPublic(new)))

\* @app.delete("/items/{item_id}"): the guard tests the class Item
delete_item ==
  \E item_id \in PathIds :
    LET item == Get(items, item_id)
        req == Request("DELETE", "items", item_id, NoBody, None, None)
    IN  /\ CanServe
        /\ UNCHANGED <<teams, users>>
        /\ IF item = None
             THEN items' = items /\ Served(req, ServerError)
             ELSE items' = Without(items, item_id) /\ Served(req, Response(200, Ok))

\* ----------------------------------------------------------- specification
\* database.db outlives the process and create_all keeps existing rows: the
\* service starts on an empty store or on what earlier runs left in it.
\* Here: nothing, or the rows 2 and 3 of each table (row 1 was deleted).
EmptyStore == [teams |-> << >>, users |-> << >>, items |-> << >>]

UsedStore ==
  [teams |-> <<[id |-> 2, name |-> "a", headquarters |-> "x"],
               [id |-> 3, name |-> "b", headquarters |-> "y"]>>,
   users |-> <<[id |-> 2, name |-> "a", email |-> Some("e1"), age |-> Some(30),
                team_id |-> Some(2),
                hashed_password |-> hash_password("p1", "s1")],
               [id |-> 3, name |-> "b", email |-> None, age |-> None,
                team_id |-> None,
                hashed_password |-> hash_password("p2", "s2")]>>,
   items |-> <<[id |-> 2, name |-> "a", price |-> 15000, is_offer |-> FALSE,
                units |-> 1, units_measurement |-> "kg"],
               [id |-> 3, name |-> "b", price |-> 999990, is_offer |-> TRUE,
                units |-> 2, units_measurement |-> "l"]>>]

Stores == {EmptyStore, UsedStore}

Init ==
  \E store \in Stores :
    /\ teams = store.teams
    /\ users = store.users
    /\ items = store.items
    /\ log = << >>

Next ==
  \/ create_user \/ read_users \/ read_user \/ update_user \/ delete_user
  \/ create_team \/ read_teams \/ read_team \/ update_team \/ delete_team
  \/ create_item \/ read_items \/ read_item \/ update_item \/ delete_item

Spec == Init /\ [][Next]_vars

\* ------------------------------------------------------------------ claims
Resources == {"teams", "users", "items"}

Table(res) ==
  CASE res = "teams" -> teams [] res = "users" -> users [] OTHER -> items

TableNext(res) ==
  CASE res = "teams" -> teams' [] res = "users" -> users' [] OTHER -> items'

StoreUnchanged == teams' = teams /\ users' = users /\ items' = items

OthersUnchanged(res) == \A o \in Resources \ {res} : TableNext(o) = Table(o)

\* a request was served in this step
Stepped == Len(log') = Len(log) + 1

\* C1: for each resource, DELETE of an id that has no row answers 404 and
\* changes nothing in the store.
C1_DeleteAbsentIs404 ==
  [][Stepped =>
       LET e == log'[Len(log')]
       IN  (e.req.op = "DELETE" /\ e.req.id \notin Ids(Table(e.req.res)))
             => (e.resp.status = 404 /\ StoreUnchanged)]_vars

\* C2: for each resource, PATCH of an id that has no row answers 404,
\* whatever the body, and leaves every row of every table unchanged.
C2_PatchAbsentIs404 ==
  [][Stepped =>
       LET e == log'[Len(log')]
       IN  (e.req.op = "PATCH" /\ e.req.id \notin Ids(Table(e.req.res)))
             => (e.resp.status = 404 /\ StoreUnchanged)]_vars

\* C3: for each resource, GET of one id answers 200 with the public form of
\* the stored row when the row exists and 404 when it does not, and the
\* store is unchanged in both cases.
C3_GetOneIs200Or404 ==
  [][Stepped =>
       LET e == log'[Len(log')]
           row == Get(Table(e.req.res), e.req.id)
       IN  e.req.op = "GET" =>
             /\ StoreUnchanged
             /\ row = None => e.resp.status = 404
             /\ row # None => /\ e.resp.status = 200
                              /\ e.resp.body = PublicOf(e.req.res, row[1])]_vars

\* the column a body field is stored in: a password is stored as its hash
StoredAs(f) == IF f = "password" THEN "hashed_password" ELSE f

\* the value a successful PATCH leaves in column f for the body value v
Supplied(res, f, v) ==
  IF res = "users" /\ f \in UserOptional THEN v ELSE v[1]

\* C4: for each resource, a PATCH of an existing row changes no column of
\* that row other than those the body explicitly carries (a password is
\* carried into hashed_password), changes no other row of any table, and
\* when it answers 200 the carried columns hold the carried values (a
\* password as a hash of it: C6); with an empty body the row stays as it was.
C4_PatchOverwritesOnlySupplied ==
  [][Stepped =>
       LET e == log'[Len(log')]
           r == e.req
           before == Table(r.res)
           after == TableNext(r.res)
       IN  (r.op = "PATCH" /\ r.id \in Ids(before)) =>
             LET old == Get(before, r.id)[1]
                 new == Get(after, r.id)[1]
                 carried == {StoredAs(f) : f \in DOMAIN r.body}
             IN  /\ OthersUnchanged(r.res)
                 /\ Len(after) = Len(before)
                 /\ \A i \in 1..Len(before) :
                      before[i].id # r.id => after[i] = before[i]
                 /\ r.id \in Ids(after)
                 /\ \A f \in DOMAIN old \ carried : new[f] = old[f]
                 /\ DOMAIN r.body = {} => new = old
                 /\ e.resp.status = 200 =>
                      \A f \in DOMAIN r.body \ {"password"} :
                        new[f] = Supplied(r.res, f, r.body[f])]_vars

\* C4 witness: a PATCH with a non-empty body answered 200 on a table that
\* holds another row besides the patched one.
C4_Witness ==
  /\ log # << >>
  /\ LET e == log[Len(log)]
     IN  /\ e.req.op = "PATCH"
         /\ e.resp.status = 200
         /\ DOMAIN e.req.body # {}
         /\ Len(Table(e.req.res)) >= 2

\* a Create body the declared Create model accepts
ValidCreate(res, body) == res = "items" => PriceField(PriceOf(body))

\* C5: for every valid Create body of each resource, POST answers 200,
\* appends exactly one row and changes no other row; the record returned has
\* the id of the new row, which no row of the table had before, and shows
\* every submitted field with the submitted value, except that a User
\* record has no password and no hashed_password field.
C5_CreateInsertsOneAndEchoes ==
  [][Stepped =>
       LET e == log'[Len(log')]
           r == e.req
           before == Table(r.res)
           after == TableNext(r.res)
       IN  (r.op = "POST" /\ ValidCreate(r.res, r.body)) =>
             /\ e.resp.status = 200
             /\ OthersUnchanged(r.res)
             /\ Len(after) = Len(before) + 1
             /\ SubSeq(after, 1, Len(before)) = before
             /\ e.resp.body.id = after[Len(after)].id
             /\ e.resp.body.id >= 1
             /\ e.resp.body.id \notin Ids(before)
             /\ Cardinality(Ids(after)) = Len(after)
             /\ \A f \in DOMAIN r.body \ {"password"} :
                  e.resp.body[f] = r.body[f]
             /\ "password" \notin DOMAIN e.resp.body
             /\ "hashed_password" \notin DOMAIN e.resp.body]_vars

\* C5 witness: a User was created, with a team_id and an email submitted,
\* in a table that already held rows.
C5_Witness ==
  /\ log # << >>
  /\ LET e == log[Len(log)]
     IN  /\ e.req.op = "POST"
         /\ e.req.res = "users"
         /\ e.resp.status = 200
         /\ "email" \in DOMAIN e.req.body
         /\ Len(users) >= 3

\* the exchanges that supplied a password for the user with this id
Supplies(e, id) ==
  /\ e.req.res = "users"
  /\ e.resp.status = 200
  /\ \/ e.req.op = "POST" /\ e.resp.body.id = id
     \/ /\ e.req.op = "PATCH"
        /\ e.req.id = id
        /\ "password" \in DOMAIN e.req.body
        /\ e.req.body["password"] # None

PasswordOf(e) ==
  IF e.req.op = "POST" THEN e.req.body["password"] ELSE e.req.body["password"][1]

\* C6: no stored hashed_password is a plaintext password, and the
\* hashed_password of every user for whom this run supplied a password (at
\* create, or in a later PATCH carrying one) verifies against the password
\* supplied last; a PATCH without password therefore leaves it as it was.
C6_StoredHashIsOfLastPassword ==
  \A i \in 1..Len(users) :
    LET row == users[i]
        S == {k \in 1..Len(log) : Supplies(log[k], row.id)}
    IN  /\ row.hashed_password \notin Passwords
        /\ S # {} =>
             /\ Verifies(PasswordOf(log[Max(S)]), row.hashed_password)
             /\ \A p \in Passwords \ {PasswordOf(log[Max(S)])} :
                  ~Verifies(p, row.hashed_password)

\* C6 witness: a user was created with one password and then patched with
\* another one.
C6_Witness ==
  /\ Len(log) = 2
  /\ log[1].req.op = "POST" /\ log[1].req.res = "users"
  /\ log[1].req.body["password"] = "p1"
  /\ Supplies(log[2], log[1].resp.body.id)
  /\ log[2].req.op = "PATCH"
  /\ PasswordOf(log[2]) = "p2"

\* C7: every stored Item has a price of at most 5 digits in all and at most
\* 3 decimal places (a request with a price outside that bound is refused
\* and stores nothing).
C7_StoredPriceWithinBound ==
  \A i \in 1..Len(items) :
    /\ Digits(items[i].price) <= MaxDigits
    /\ Decimals(items[i].price) <= DecimalPlaces

\* C8: for each resource, the list endpoint with an accepted offset and limit
\* answers 200 with the rows of the table in insertion order from position
\* offset on, at most limit of them and never more than 100.
C8_ListIsSlice ==
  log # << >> =>
    LET e == log[Len(log)]
        table == Table(e.req.res)
        off == IF e.req.offset = None THEN DefaultOffset ELSE e.req.offset[1]
        lim == IF e.req.limit = None THEN DefaultLimit ELSE e.req.limit[1]
    IN  (e.req.op = "LIST" /\ lim <= LimitCap) =>
          /\ e.resp.status = 200
          /\ Len(e.resp.body.rows) <= lim
          /\ Len(e.resp.body.rows) <= LimitCap
          /\ \A k \in 1..Len(e.resp.body.rows) :
               /\ off + k <= Len(table)
               /\ e.resp.body.rows[k] = PublicOf(e.req.res, table[off + k])

\* C9: for each resource, a GET of an id answers 404 when an earlier DELETE
\* of that id answered 200 and no create of that resource came in between;
\* and a DELETE that answers 200 removes the row with that id and no other
\* row of the table.
C9_DeletedThenGetIs404 ==
  /\ [](\A i, j \in 1..Len(log) :
          (/\ i < j
           /\ log[i].req.op = "DELETE" /\ log[i].resp.status = 200
           /\ log[j].req.op = "GET"
           /\ log[j].req.res = log[i].req.res
           /\ log[j].req.id = log[i].req.id
           /\ \A k \in (i + 1)..(j - 1) :
                ~(log[k].req.op = "POST" /\ log[k].req.res = log[i].req.res))
            => log[j].resp.status = 404)
  /\ [][Stepped =>
          LET e == log'[Len(log')]
              before == Table(e.req.res)
              after == TableNext(e.req.res)
          IN  (e.req.op = "DELETE" /\ e.resp.status = 200) =>
                /\ e.req.id \in Ids(before)
                /\ Len(after) = Len(before) - 1
                /\ Ids(after) = Ids(before) \ {e.req.id}
                /\ \A k \in 1..Len(after) :
                     \E m \in 1..Len(before) : after[k] = before[m]]_vars

\* C9 witness: a DELETE answered 200 and the GET of the same id that came
\* next answered 404.
C9_Witness ==
  /\ Len(log) >= 2
  /\ LET d == log[Len(log) - 1]
         g == log[Len(log)]
     IN  /\ d.req.op = "DELETE" /\ d.resp.status = 200
         /\ g.req.op = "GET" /\ g.req.res = d.req.res /\ g.req.id = d.req.id
         /\ g.resp.status = 404
         /\ Table(d.req.res) # << >>

\* C10: every stored User has a team_id that is null or the id of a Team
\* that exists.
C10_TeamIdRefersToTeam ==
  \A i \in 1..Len(users) :
    users[i].team_id = None \/ users[i].team_id[1] \in Ids(teams)

====
